---- MODULE Spec2Model ----
(***************************************************************************)
(* Booking lifecycle, payment orchestration and refunds of the Diamond     *)
(* House cleaning platform (server/src/controllers/bookingController.js,   *)
(* paymentController.js, models/Booking.js, models/Payment.js).            *)
(*                                                                         *)
(* Every HTTP request is a process.  A handler runs from one `await` on    *)
(* the database or the gateway to the next as one atomic step; between two *)
(* awaits of a request the steps of other requests may interleave.         *)
(* Documents are kept in insertion order; a document's _id is its index.   *)
(***************************************************************************)
EXTENDS Integers, Sequences, FiniteSets, TLC

\* ------------------------------------------------------------------ bounds
MaxBookings == 2      \* Booking documents ever created (SpecBookings)
MaxBooked   == 1      \* Booking documents ever created (Spec, SpecOrders)
MaxPayments == 3      \* Payment documents ever created (SpecOrders)
MaxPaid     == 1      \* Payment documents ever created (Spec)
MaxRefunds  == 1      \* refunds the gateway ever makes
MaxRefundCalls == 2   \* processRefund requests that reach the gateway (SpecRefunds)
MaxInflight == 2      \* requests in flight at the same time
MaxNow      == 24     \* the clock stops advancing here (hours since epoch)
StartNow    == 23     \* the clock's value when the server starts
TzOffset    == 0      \* the server's time zone unless a scenario says otherwise: UTC

\* ------------------------------------------------------------------ users
\* req.user as the authentication middleware leaves it: {_id, role}.
Customers == {"c1", "c2"}
Users     == Customers \cup {"staff1", "admin1"}

\* The users whose createBooking requests the model follows.
Creators  == {"c1"}

\* The staff users; staff2 only reads.
Staff     == {"staff1", "staff2"}

Role(u) == IF u \in Customers THEN "customer"
           ELSE IF u \in Staff THEN "staff" ELSE "admin"

\* ------------------------------------------------------------------ time
HoursPerDay == 24
UtcDay(t)   == t \div HoursPerDay

\* Scheduled dates a request may name.
ScheduledDates == {StartNow - 1, StartNow + 3}

\* ------------------------------------------------------------------ catalog
\* Service documents: the booking controller reads isActive and
\* pricing.basePrice; addOns is what the service offers.  Money is kept in
\* paise (1/100 rupee): 100000 is 1000.00.
Catalog == [s1 |-> [isActive |-> TRUE,  basePrice |-> 100000,
                    addOns |-> {[name |-> "oven", price |-> 20000]}],
            s2 |-> [isActive |-> FALSE, basePrice |-> 50000, addOns |-> {}],
            s3 |-> [isActive |-> TRUE,  basePrice |-> 125, addOns |-> {}]]

NoService == "s9"     \* an id no Service document has

ServiceExists(sid) == sid \in DOMAIN Catalog

\* req.body.services of the createBooking requests of the model.
RequestServices ==
  { <<[serviceId |-> "s1", quantity |-> 1, addOns |-> <<>>]>>,
    <<[serviceId |-> "s2", quantity |-> 1, addOns |-> <<>>]>>,
    <<[serviceId |-> NoService, quantity |-> 1, addOns |-> <<>>]>> }

\* ------------------------------------------------------------------ state
VARIABLES
  bookings,   \* the Booking collection: sequence of documents, _id = index
  payments,   \* the Payment collection: sequence of documents, _id = index
  gateway,    \* the payment gateway: orders opened, refunds made
  reqs,       \* the requests in flight: slot -> the handler's local state
  now,        \* the clock (hours, UTC)
  tz,         \* the server's time zone: local time = UTC + tz hours
  last        \* the step taken last: operation, HTTP status (0 = no answer yet)

vars == <<bookings, payments, gateway, reqs, now, tz, last>>

Idle == [op |-> "idle"]
Slots == 1..MaxInflight
FreeSlot(s) == reqs[s] = Idle /\ \A t \in Slots : t < s => reqs[t] # Idle

BookingIds == 1..Len(bookings)
PaymentIds == 1..Len(payments)

BookingStatusEnum ==
  {"pending", "confirmed", "assigned", "in_progress", "completed", "cancelled"}

NoPayment == 0
NoUser    == "none"

\* A step's stamp: the operation, the HTTP status answered (0 while the
\* request is still running), what kind of input it was, the document the
\* request names (0: none), whether its signature is the gateway's, its body
\* (webhooks) and whether it repeats the delivery answered just before.
NoBody == [event |-> "none"]

StampOf(op, code, tag, ref, signed, arg, again) ==
  [op |-> op, code |-> code, tag |-> tag, ref |-> ref, signed |-> signed,
   arg |-> arg, again |-> again]

Stamp(op, code, tag) == StampOf(op, code, tag, 0, TRUE, NoBody, FALSE)

Init ==
  /\ bookings = <<>>
  /\ payments = <<>>
  /\ gateway = [orders |-> 0, refunds |-> <<>>]
  /\ reqs = [s \in Slots |-> Idle]
  /\ now = StartNow
  /\ tz = TzOffset
  /\ last = Stamp("start", 0, "none")

\* ------------------------------------------------------------------ clock
Tick ==
  /\ now < MaxNow
  /\ now' = now + 1
  /\ last' = Stamp("tick", 0, "none")
  /\ UNCHANGED <<bookings, payments, gateway, reqs, tz>>

\* ------------------------------------------------------- booking numbers
\* (count + 1).toString().padStart(4, '0'): the decimal digits, padded on
\* the left with zeros to at least four.
RECURSIVE Digits(_)
Digits(n) == IF n < 10 THEN <<n>> ELSE Append(Digits(n \div 10), n % 10)

RECURSIVE PadStart(_, _)
PadStart(ds, width) == IF Len(ds) >= width THEN ds ELSE PadStart(<<0>> \o ds, width)

\* `DC${dateStr}${sequence}`: dateStr is the UTC date of toISOString().
BookingNumber(date, count) ==
  [prefix |-> "DC", dateStr |-> UtcDay(date), sequence |-> PadStart(Digits(count + 1), 4)]

\* new Date(date.getFullYear(), date.getMonth(), date.getDate()): the day in
\* the server's local time.
LocalDay(t) == (t + tz) \div HoursPerDay

\* countDocuments({createdAt: {$gte: local midnight, $lt: next local midnight}})
CountCreatedOn(date) ==
  Cardinality({b \in BookingIds : LocalDay(bookings[b].createdAt) = LocalDay(date)})

\* ------------------------------------------------------------ pricing
RECURSIVE SumPrices(_)
SumPrices(addOns) ==
  IF addOns = <<>> THEN 0 ELSE Head(addOns).price + SumPrices(Tail(addOns))

ItemTotal(item) ==
  (Catalog[item.serviceId].basePrice + SumPrices(item.addOns)) * item.quantity

RECURSIVE Subtotal(_)
Subtotal(items) ==
  IF items = <<>> THEN 0 ELSE ItemTotal(Head(items)) + Subtotal(Tail(items))

\* The subtotals of the model, in paise, for which subtotal * 0.18 * 100 is a
\* half in exact arithmetic and falls below it in IEEE-754 double arithmetic
\* (1.25 * 0.18 * 100 = 22.499999999999996, 5.75 * 0.18 * 100 =
\* 103.49999999999999); for every other subtotal of the model the double
\* product rounds as the exact one.
HalfBelow == {125, 575}

\* Math.round(subtotal * 0.18 * 100) / 100, in paise: Math.round takes the
\* double product to the nearest integer, a half upwards.
TaxPaise(subtotal) ==
  IF subtotal \in HalfBelow THEN (subtotal * 18) \div 100
  ELSE (subtotal * 18 + 50) \div 100

\* pricing: {subtotal, tax, total}; discount is the schema's default.
ComputePricing(items) ==
  [subtotal |-> Subtotal(items),
   tax      |-> TaxPaise(Subtotal(items)),
   discount |-> 0,
   total    |-> Subtotal(items) + TaxPaise(Subtotal(items))]

\* validatedServices: the catalog's base price, the request's quantity and
\* add-ons, the item's total.
ValidatedServices(items) ==
  [i \in 1..Len(items) |->
     [serviceId |-> items[i].serviceId, quantity |-> items[i].quantity,
      basePrice |-> Catalog[items[i].serviceId].basePrice,
      addOns |-> items[i].addOns, subtotal |-> ItemTotal(items[i])]]

ServicesValid(items) ==
  \A i \in 1..Len(items) :
    ServiceExists(items[i].serviceId) /\ Catalog[items[i].serviceId].isActive

\* ------------------------------------------------------------ createBooking
\* The document Booking.create builds: schema defaults for status,
\* cancellation and payment.
NewBooking(u, items, scheduledDate, createdAt, number) ==
  [bookingNumber |-> number,
   customerId    |-> u,
   services      |-> ValidatedServices(items),
   scheduledDate |-> scheduledDate,
   pricing       |-> ComputePricing(items),
   status        |-> "pending",
   assignedStaff |-> {},
   cancellation  |-> [isCancelled |-> FALSE, cancelledBy |-> NoUser, refundAmount |-> 0],
   payment       |-> NoPayment,
   createdAt     |-> createdAt]

\* No unique index.
BookingNumberFree_NoIndex(number) == TRUE

\* The unique index on bookingNumber.
BookingNumberFree(number) ==
  \A b \in BookingIds : bookings[b].bookingNumber # number

\* createBooking up to the pre-save hook's countDocuments: the services are
\* validated and priced, the scheduled date is validated, the hook takes the
\* date and counts the day's bookings.
CreateBookingStart(s, u, items, scheduledDate) ==
  /\ FreeSlot(s)
  /\ IF ~ServicesValid(items)
       THEN /\ last' = Stamp("createBooking", 400, "invalid")
            /\ UNCHANGED reqs
       ELSE IF scheduledDate < now
         THEN /\ last' = Stamp("createBooking", 500, "invalid")
              /\ UNCHANGED reqs
         ELSE /\ reqs' = [reqs EXCEPT ![s] =
                   [op |-> "createBooking", user |-> u, items |-> items,
                    scheduledDate |-> scheduledDate, date |-> now,
                    count |-> CountCreatedOn(now)]]
              /\ last' = Stamp("createBooking", 0, "valid")
  /\ UNCHANGED <<bookings, payments, gateway, now, tz>>

\* The insert: the number is built from the count read before.
CreateBookingSave(s) ==
  /\ reqs[s].op = "createBooking"
  /\ LET r == reqs[s]
         number == BookingNumber(r.date, r.count)
     IN IF BookingNumberFree(number)
          THEN /\ bookings' = Append(bookings,
                     NewBooking(r.user, r.items, r.scheduledDate, r.date, number))
               /\ last' = Stamp("createBooking", 201, "valid")
          ELSE /\ last' = Stamp("createBooking", 500, "valid")
               /\ UNCHANGED bookings
  /\ reqs' = [reqs EXCEPT ![s] = Idle]
  /\ UNCHANGED <<payments, gateway, now, tz>>

\* ------------------------------------------------------------ updateBooking
\* req.body of the updateBooking requests of the model: a function from the
\* keys sent to their values.
UpdateBodies ==
  {[status |-> st] : st \in BookingStatusEnum \cup {"refunded"}}
    \cup {[scheduledDate |-> d] : d \in ScheduledDates}
    \cup {[status |-> "completed", scheduledDate |-> StartNow + 3]}

AllowedFields(role, status) ==
  (IF role = "customer" /\ status \in {"pending", "confirmed"}
     THEN {"scheduledDate", "scheduledTimeSlot", "specialInstructions", "serviceAddress"}
     ELSE {})
  \cup
  (IF role \in {"admin", "staff"} THEN {"status", "assignedStaff", "completion"} ELSE {})

\* updateData: the keys of the body that are allowed.
UpdateData(body, allowed) ==
  [k \in (DOMAIN body) \cap allowed |-> body[k]]

\* runValidators: the schema's validators of the paths that are set.
UpdateValid(data, t) ==
  /\ "status" \in DOMAIN data => data.status \in BookingStatusEnum
  /\ "scheduledDate" \in DOMAIN data => data.scheduledDate >= t

\* $set of the keys of data on a Booking document.
ApplyUpdate(b, data) ==
  [k \in DOMAIN b |-> IF k \in DOMAIN data THEN data[k] ELSE b[k]]

\* updateBooking up to Booking.findById and the permission check.
UpdateBookingFind(s, u, id, body) ==
  /\ FreeSlot(s)
  /\ IF id \notin BookingIds
       THEN /\ last' = Stamp("updateBooking", 404, "none")
            /\ UNCHANGED reqs
       ELSE IF Role(u) = "customer" /\ bookings[id].customerId # u
         THEN /\ last' = Stamp("updateBooking", 403, "none")
              /\ UNCHANGED reqs
         ELSE /\ reqs' = [reqs EXCEPT ![s] =
                   [op |-> "updateBooking", user |-> u, id |-> id,
                    data |-> UpdateData(body, AllowedFields(Role(u), bookings[id].status))]]
              /\ last' = Stamp("updateBooking", 0, "found")
  /\ UNCHANGED <<bookings, payments, gateway, now, tz>>

\* Booking.findByIdAndUpdate(id, updateData, {new: true, runValidators: true}).
UpdateBookingWrite(s) ==
  /\ reqs[s].op = "updateBooking"
  /\ LET r == reqs[s]
     IN IF UpdateValid(r.data, now)
          THEN /\ bookings' = [bookings EXCEPT ![r.id] = ApplyUpdate(@, r.data)]
               /\ last' = Stamp("updateBooking", 200, "written")
          ELSE /\ last' = Stamp("updateBooking", 500, "validation")
               /\ UNCHANGED bookings
  /\ reqs' = [reqs EXCEPT ![s] = Idle]
  /\ UNCHANGED <<payments, gateway, now, tz>>

\* ------------------------------------------------------------ reads
\* What a read answers: the requester and the _ids of the documents sent.
ReadStamp(op, code, u, id, ids) ==
  StampOf(op, code, "read", id, TRUE, [event |-> "read", user |-> u, ids |-> ids], FALSE)

\* getBooking's permission checks with the staff check left out.
MayView_NoStaffCheck(u, b) ==
  ~(Role(u) = "customer" /\ b.customerId # u)

\* getBooking's two permission checks on the booking it read.
MayView(u, b) ==
  /\ ~(Role(u) = "customer" /\ b.customerId # u)
  /\ ~(Role(u) = "staff" /\ u \notin b.assignedStaff)

\* getBooking: Booking.findById, the checks, the answer.
GetBooking(u, id) ==
  /\ last' = IF id \notin BookingIds THEN ReadStamp("getBooking", 404, u, id, {})
             ELSE IF ~MayView(u, bookings[id]) THEN ReadStamp("getBooking", 403, u, id, {})
             ELSE ReadStamp("getBooking", 200, u, id, {id})
  /\ UNCHANGED <<bookings, payments, gateway, reqs, now, tz>>

\* getBookings' filter by role; the status and date filters of the query and
\* the page only narrow the list.
ListFilter(u, b) ==
  CASE Role(u) = "customer" -> b.customerId = u
    [] Role(u) = "staff"    -> u \in b.assignedStaff
    [] OTHER                -> TRUE

\* getBookings: Booking.find(filter).
GetBookings(u) ==
  /\ last' = ReadStamp("getBookings", 200, u, 0,
                       {b \in BookingIds : ListFilter(u, bookings[b])})
  /\ UNCHANGED <<bookings, payments, gateway, reqs, now, tz>>

\* getPayment: Payment.findById, the check of the customer, the answer.
GetPayment(u, id) ==
  /\ last' = IF id \notin PaymentIds THEN ReadStamp("getPayment", 404, u, id, {})
             ELSE IF Role(u) = "customer" /\ payments[id].customerId # u
               THEN ReadStamp("getPayment", 403, u, id, {})
             ELSE ReadStamp("getPayment", 200, u, id, {id})
  /\ UNCHANGED <<bookings, payments, gateway, reqs, now, tz>>

\* getBookingPayments: Payment.find({bookingId}), the answer.
GetBookingPayments(u, bookingId) ==
  /\ last' = ReadStamp("getBookingPayments", 200, u, bookingId,
                       {p \in PaymentIds : payments[p].bookingId = bookingId})
  /\ UNCHANGED <<bookings, payments, gateway, reqs, now, tz>>

\* ------------------------------------------------------------ cancelBooking
CancelWindowHours == 2

CanCancel_AtTwoHours(b, t) ==
  t <= b.scheduledDate - CancelWindowHours /\ b.status \in {"pending", "confirmed"}

\* bookingSchema.methods.canCancel
CanCancel(b, t) ==
  t < b.scheduledDate - CancelWindowHours /\ b.status \in {"pending", "confirmed"}

RescheduleWindowHours == 4

\* bookingSchema.methods.canReschedule
CanReschedule(b, t) ==
  /\ t < b.scheduledDate - RescheduleWindowHours
  /\ b.status \in {"pending", "confirmed", "assigned"}

MayCancel_Anyone(u, b) == TRUE

\* cancelBooking's permission check: a customer only on a booking of their own.
MayCancel(u, b) == ~(Role(u) = "customer" /\ b.customerId # u)

\* req.body.reason || 'Cancelled by user'
CancellationReason(reason) == IF reason = "" THEN "Cancelled by user" ELSE reason

\* cancelBooking up to Booking.findById, the permission check and canCancel();
\* the cancellation record, with its new Date(), is built before the save.
CancelBookingFind(s, u, id, reason) ==
  /\ FreeSlot(s)
  /\ LET St(code, tag) == StampOf("cancelBooking", code, tag, id, TRUE,
                                  [event |-> "cancel", user |-> u], FALSE)
     IN IF id \notin BookingIds
          THEN /\ last' = St(404, "none")
               /\ UNCHANGED reqs
          ELSE IF ~MayCancel(u, bookings[id])
            THEN /\ last' = St(403, "forbidden")
                 /\ UNCHANGED reqs
            ELSE IF ~CanCancel(bookings[id], now)
              THEN /\ last' = St(400, "refused")
                   /\ UNCHANGED reqs
              ELSE /\ reqs' = [reqs EXCEPT ![s] =
                        [op |-> "cancelBooking", user |-> u, id |-> id, at |-> now,
                         reason |-> CancellationReason(reason)]]
                   /\ last' = St(0, "found")
  /\ UNCHANGED <<bookings, payments, gateway, now, tz>>

\* booking.save(): the modified paths, status and cancellation, are written.
CancelBookingSave(s) ==
  /\ reqs[s].op = "cancelBooking"
  /\ LET r == reqs[s]
     IN /\ bookings' = [bookings EXCEPT ![r.id] =
             [@ EXCEPT !.status = "cancelled",
                       !.cancellation =
                          [isCancelled |-> TRUE, cancelledBy |-> r.user,
                           cancelledAt |-> r.at, cancellationReason |-> r.reason,
                           refundAmount |-> 0]]]
        /\ last' = StampOf("cancelBooking", 200, "cancelled", r.id, TRUE,
                           [event |-> "cancel", user |-> r.user], FALSE)
  /\ reqs' = [reqs EXCEPT ![s] = Idle]
  /\ UNCHANGED <<payments, gateway, now, tz>>

\* ------------------------------------------------------------ signatures
KeySecret     == "RAZORPAY_KEY_SECRET"
WebhookSecret == "RAZORPAY_WEBHOOK_SECRET"

\* crypto.createHmac('sha256', secret).update(msg).digest('hex'): a value
\* that names its key and its message, so two digests are equal only when
\* both are.
Hmac(secret, msg) == [alg |-> "sha256", key |-> secret, msg |-> msg]

\* razorpay_order_id + '|' + razorpay_payment_id
SignText(orderId, paymentId) == <<orderId, "|", paymentId>>

\* JSON.stringify(req.body): the text of the parsed body, key by key.
Stringify(body) == <<"event", body.event, "order_id", body.order_id, "id", body.id,
                     "refund", body.refund>>

\* ------------------------------------------------------------ payments
NoTxn == "none"       \* gatewayTransactionId not set
GatewayPaymentIds == {"pay_1"}

\* The amounts (paise) a request may name.
Amounts == {118000}

\* req.body.amount of the createOrder requests: the booking's total, or less.
OrderAmounts == Amounts \cup {100}

NoRefundId == 0       \* refund.refundTransactionId not set

NoRefundEntity == [payment_id |-> NoTxn, amount |-> 0, id |-> NoRefundId]

NoRefund == [isRefunded |-> FALSE, refundAmount |-> 0, refundTransactionId |-> NoRefundId]

\* The document Payment.create builds in createOrder.
NewPayment(orderId, bookingId, u, amount) ==
  [transactionId        |-> orderId,
   bookingId            |-> bookingId,
   customerId           |-> u,
   amount               |-> amount,
   gatewayOrderId       |-> orderId,
   gatewayTransactionId |-> NoTxn,
   status               |-> "initiated",
   refund               |-> NoRefund]

\* Model.findOne(filter): the first document, in natural (insertion) order,
\* that satisfies the filter; 0 when none does.
FirstPayment(Matches(_)) ==
  IF \E p \in PaymentIds : Matches(payments[p])
    THEN CHOOSE p \in PaymentIds :
           Matches(payments[p]) /\ \A q \in PaymentIds : Matches(payments[q]) => p <= q
    ELSE 0

PaymentOfBooking(bookingId) ==
  LET M(doc) == doc.bookingId = bookingId IN FirstPayment(M)

PaymentOfOrder(orderId) ==
  LET M(doc) == doc.transactionId = orderId IN FirstPayment(M)

PaymentOfGatewayTxn(txn) ==
  LET M(doc) == doc.gatewayTransactionId = txn IN FirstPayment(M)

\* ------------------------------------------------------------ createOrder
\* The checks without the one of the owner.
OrderCheck_NoOwner(u, bookingId) ==
  IF bookingId \notin BookingIds THEN 404
  ELSE IF bookings[bookingId].status # "confirmed" THEN 400
  ELSE 0

\* The three checks createOrder makes on the booking it read: the status it
\* answers, 0 when the booking passes.
OrderCheck(u, bookingId) ==
  IF bookingId \notin BookingIds THEN 404
  ELSE IF bookings[bookingId].customerId # u THEN 403
  ELSE IF bookings[bookingId].status # "confirmed" THEN 400
  ELSE 0

\* What the stored booking is to the request, whatever the handler makes of it.
OrderCase(u, bookingId) ==
  IF bookingId \notin BookingIds THEN "missing"
  ELSE IF bookings[bookingId].customerId # u THEN "foreign"
  ELSE IF bookings[bookingId].status # "confirmed" THEN "unconfirmed"
  ELSE "payable"

\* createOrder up to Booking.findById and the three checks on the booking.
CreateOrderFindBooking(s, u, bookingId, amount) ==
  /\ FreeSlot(s)
  /\ IF OrderCheck(u, bookingId) # 0
       THEN /\ last' = Stamp("createOrder", OrderCheck(u, bookingId), OrderCase(u, bookingId))
            /\ UNCHANGED reqs
       ELSE /\ reqs' = [reqs EXCEPT ![s] =
                 [op |-> "createOrder", pc |-> "findPayment", user |-> u,
                  bookingId |-> bookingId, amount |-> amount, order |-> 0,
                  case |-> OrderCase(u, bookingId)]]
            /\ last' = Stamp("createOrder", 0, OrderCase(u, bookingId))
  /\ UNCHANGED <<bookings, payments, gateway, now, tz>>

\* existingPayment && existingPayment.status === 'success'
PaymentAlreadyCompleted(bookingId) ==
  LET existingPayment == PaymentOfBooking(bookingId)
  IN existingPayment # 0 /\ payments[existingPayment].status = "success"

\* Payment.findOne({bookingId}) and the check of its status.
CreateOrderFindPayment(s) ==
  /\ reqs[s].op = "createOrder" /\ reqs[s].pc = "findPayment"
  /\ IF PaymentAlreadyCompleted(reqs[s].bookingId)
       THEN /\ last' = Stamp("createOrder", 400, "completed")
            /\ reqs' = [reqs EXCEPT ![s] = Idle]
       ELSE /\ last' = Stamp("createOrder", 0, "payment")
            /\ reqs' = [reqs EXCEPT ![s].pc = "gateway"]
  /\ UNCHANGED <<bookings, payments, gateway, now, tz>>

\* razorpay.orders.create(options): the gateway opens an order and answers
\* its id, or the call throws (no client configured, gateway unavailable).
CreateOrderGateway(s, ok) ==
  /\ reqs[s].op = "createOrder" /\ reqs[s].pc = "gateway"
  /\ IF ok
       THEN /\ gateway' = [gateway EXCEPT !.orders = @ + 1]
            /\ reqs' = [reqs EXCEPT ![s].pc = "save", ![s].order = gateway.orders + 1]
            /\ last' = Stamp("createOrder", 0, "order")
       ELSE /\ last' = Stamp("createOrder", 500, "gateway")
            /\ reqs' = [reqs EXCEPT ![s] = Idle]
            /\ UNCHANGED gateway
  /\ UNCHANGED <<bookings, payments, now, tz>>

\* Payment.create({transactionId: order.id, ..., status: 'initiated'})
CreateOrderSave(s) ==
  /\ reqs[s].op = "createOrder" /\ reqs[s].pc = "save"
  /\ LET r == reqs[s]
     IN payments' = Append(payments, NewPayment(r.order, r.bookingId, r.user, r.amount))
  /\ last' = Stamp("createOrder", 200, "created")
  /\ reqs' = [reqs EXCEPT ![s] = Idle]
  /\ UNCHANGED <<bookings, gateway, now, tz>>

\* ------------------------------------------------------------ verifyPayment
\* The check with either of the two secrets taken for the key secret.
VerifySignatureMismatch_AnySecret(orderId, paymentId, signature) ==
  /\ signature # Hmac(KeySecret, SignText(orderId, paymentId))
  /\ signature # Hmac(WebhookSecret, SignText(orderId, paymentId))

\* razorpay_signature !== expectedSign
VerifySignatureMismatch(orderId, paymentId, signature) ==
  signature # Hmac(KeySecret, SignText(orderId, paymentId))

\* verifyPayment up to Payment.findOneAndUpdate({transactionId: order id}, ...)
VerifyPaymentUpdate(s, u, orderId, paymentId, signature, bookingId) ==
  /\ FreeSlot(s)
  /\ LET signed == signature = Hmac(KeySecret, SignText(orderId, paymentId))
         p == PaymentOfOrder(orderId)
         St(code) == StampOf("verifyPayment", code, "update", p, signed, NoBody, FALSE)
     IN IF VerifySignatureMismatch(orderId, paymentId, signature)
          THEN /\ last' = St(400)
               /\ UNCHANGED <<reqs, payments>>
          ELSE IF p = 0
            THEN /\ last' = St(404)
                 /\ UNCHANGED <<reqs, payments>>
            ELSE /\ payments' = [payments EXCEPT ![p] =
                      [@ EXCEPT !.gatewayTransactionId = paymentId, !.status = "success"]]
                 /\ reqs' = [reqs EXCEPT ![s] =
                      [op |-> "verifyPayment", user |-> u, bookingId |-> bookingId,
                       payment |-> p, signed |-> signed]]
                 /\ last' = St(0)
  /\ UNCHANGED <<bookings, gateway, now, tz>>

\* Booking.findByIdAndUpdate(bookingId, {status: 'assigned', payment: {...}}):
\* the update gives the path `payment`, an ObjectId in the schema, an object
\* {paymentId, paymentStatus, paymentMethod}.  Either the update is cast to
\* the schema and written (cast), or the cast throws, nothing is written and
\* the catch block answers 500.  No document with that id, nothing is written.
VerifyPaymentBooking(s, cast) ==
  /\ reqs[s].op = "verifyPayment"
  /\ LET r == reqs[s]
         St(code) == StampOf("verifyPayment", code, "booking", r.payment, r.signed,
                             NoBody, FALSE)
     IN IF cast
          THEN /\ IF r.bookingId \in BookingIds
                    THEN bookings' = [bookings EXCEPT ![r.bookingId] =
                           [@ EXCEPT !.status = "assigned", !.payment = r.payment]]
                    ELSE UNCHANGED bookings
               /\ last' = St(200)
          ELSE /\ UNCHANGED bookings
               /\ last' = St(500)
  /\ reqs' = [reqs EXCEPT ![s] = Idle]
  /\ UNCHANGED <<payments, gateway, now, tz>>

\* ------------------------------------------------------------ processRefund
\* processRefund up to Payment.findById and the check of the status.
ProcessRefundFind(s, id, amount) ==
  /\ FreeSlot(s)
  /\ IF id \notin PaymentIds
       THEN /\ last' = Stamp("processRefund", 404, "none")
            /\ UNCHANGED reqs
       ELSE IF payments[id].status # "success"
         THEN /\ last' = Stamp("processRefund", 400, "status")
              /\ UNCHANGED reqs
         ELSE /\ reqs' = [reqs EXCEPT ![s] =
                   [op |-> "processRefund", pc |-> "gateway", id |-> id, amount |-> amount,
                    txn |-> payments[id].gatewayTransactionId,
                    bookingId |-> payments[id].bookingId, refundId |-> 0]]
              /\ last' = Stamp("processRefund", 0, "found")
  /\ UNCHANGED <<bookings, payments, gateway, now, tz>>

\* razorpay.payments.refund(payment.gatewayTransactionId, {amount}): the
\* gateway makes the refund, or the call throws.
ProcessRefundGateway(s, ok) ==
  /\ reqs[s].op = "processRefund" /\ reqs[s].pc = "gateway"
  /\ IF ok
       THEN /\ gateway' = [gateway EXCEPT !.refunds =
                 Append(@, [payment_id |-> reqs[s].txn, amount |-> reqs[s].amount])]
            /\ reqs' = [reqs EXCEPT ![s].pc = "save",
                                     ![s].refundId = Len(gateway.refunds) + 1]
            /\ last' = Stamp("processRefund", 0, "refunded")
       ELSE /\ last' = Stamp("processRefund", 500, "gateway")
            /\ reqs' = [reqs EXCEPT ![s] = Idle]
            /\ UNCHANGED gateway
  /\ UNCHANGED <<bookings, payments, now, tz>>

\* payment.refund = {...}; payment.status = 'refunded'; payment.save(): the
\* modified paths, refund and status, are written.
ProcessRefundSave(s) ==
  /\ reqs[s].op = "processRefund" /\ reqs[s].pc = "save"
  /\ LET r == reqs[s]
     IN payments' = [payments EXCEPT ![r.id] =
          [@ EXCEPT !.refund = [isRefunded |-> TRUE, refundAmount |-> r.amount,
                                refundTransactionId |-> r.refundId],
                    !.status = "refunded"]]
  /\ reqs' = [reqs EXCEPT ![s].pc = "booking"]
  /\ last' = Stamp("processRefund", 0, "saved")
  /\ UNCHANGED <<bookings, gateway, now, tz>>

\* Booking.findByIdAndUpdate(payment.bookingId, {status: 'refunded',
\* cancellation: {...}}): no validators run on this update.
ProcessRefundBooking(s) ==
  /\ reqs[s].op = "processRefund" /\ reqs[s].pc = "booking"
  /\ LET r == reqs[s]
     IN bookings' = [bookings EXCEPT ![r.bookingId] =
          [@ EXCEPT !.status = "refunded",
                    !.cancellation = [isCancelled |-> TRUE, cancelledBy |-> NoUser,
                                      refundAmount |-> r.amount]]]
  /\ last' = Stamp("processRefund", 200, "done")
  /\ reqs' = [reqs EXCEPT ![s] = Idle]
  /\ UNCHANGED <<payments, gateway, now, tz>>

\* ------------------------------------------------------------ webhook
WebhookEvents == {"payment.captured", "payment.failed", "refund.processed", "order.paid"}

\* The check of the key alone, the signed text not compared.
WebhookSignatureMismatch_KeyOnly(body, signature) ==
  signature.key # WebhookSecret

\* signature !== expectedSignature
WebhookSignatureMismatch(body, signature) ==
  signature # Hmac(WebhookSecret, Stringify(body))

\* payment.captured recorded as a new Payment instead of an update.
WebhookPayments_Insert(body) ==
  IF body.event = "payment.captured"
    THEN Append(payments,
           [NewPayment(body.order_id, 0, NoUser, 0)
              EXCEPT !.status = "success", !.gatewayTransactionId = body.id])
    ELSE payments

\* The Payment collection after the event of the body is applied.
WebhookPayments(body) ==
  LET byOrder == PaymentOfOrder(body.order_id)
      byTxn   == PaymentOfGatewayTxn(body.refund.payment_id)
  IN CASE body.event = "payment.captured" /\ byOrder # 0 ->
            [payments EXCEPT ![byOrder] =
               [@ EXCEPT !.status = "success", !.gatewayTransactionId = body.id]]
       [] body.event = "payment.failed" /\ byOrder # 0 ->
            [payments EXCEPT ![byOrder] = [@ EXCEPT !.status = "failed"]]
       [] body.event = "refund.processed" /\ byTxn # 0 ->
            [payments EXCEPT ![byTxn] =
               [@ EXCEPT !.refund = [isRefunded |-> TRUE,
                                     refundAmount |-> body.refund.amount,
                                     refundTransactionId |-> body.refund.id]]]
       [] OTHER -> payments

HandleRazorpayWebhook(body, signature) ==
  /\ LET signed == signature = Hmac(WebhookSecret, Stringify(body))
         again  == last.op = "webhook" /\ last.code = 200 /\ last.signed /\ last.arg = body
         St(code) == StampOf("webhook", code, body.event, PaymentOfOrder(body.order_id),
                             signed, body, signed /\ again)
     IN IF WebhookSignatureMismatch(body, signature)
          THEN /\ last' = St(400)
               /\ UNCHANGED payments
          ELSE /\ payments' = WebhookPayments(body)
               /\ last' = St(200)
  /\ UNCHANGED <<bookings, gateway, reqs, now, tz>>

\* protect: a request that carries no user's credentials is answered 401 and
\* goes no further.
Protect(auth) == IF auth \in Users THEN 0 ELSE 401

\* POST /webhook/razorpay as the router serves it: router.use(protect) is
\* registered before the route, so protect runs first.
WebhookRoute(auth, body, signature) ==
  IF Protect(auth) = 401
    THEN /\ last' = StampOf("webhook", 401, "protect", PaymentOfOrder(body.order_id),
                            signature = Hmac(WebhookSecret, Stringify(body)), body, FALSE)
         /\ UNCHANGED <<bookings, payments, gateway, reqs, now, tz>>
    ELSE HandleRazorpayWebhook(body, signature)

\* ------------------------------------------------------------ requests
\* The bodies of the webhook deliveries of the model, naming the orders 1..n.
WebhookBodies(n) ==
  {[event |-> e, order_id |-> o, id |-> p, refund |-> NoRefundEntity] :
     e \in WebhookEvents \ {"refund.processed"}, o \in 1..n, p \in GatewayPaymentIds}
  \cup
  {[event |-> "refund.processed", order_id |-> o, id |-> p,
    refund |-> [payment_id |-> p, amount |-> a, id |-> 1]] :
     o \in 1..n, p \in GatewayPaymentIds, a \in Amounts}

\* The signatures a webhook delivery of the body may carry: the gateway's,
\* one made with another key, one made for another body.
WebhookSignatures(body) ==
  {Hmac(WebhookSecret, Stringify(body)), Hmac(KeySecret, Stringify(body)),
   Hmac(WebhookSecret, Stringify([body EXCEPT !.event = "payment.authorized"]))}

\* The signatures a verifyPayment request may carry.
VerifySignatures(orderId, paymentId) ==
  {Hmac(KeySecret, SignText(orderId, paymentId)),
   Hmac(WebhookSecret, SignText(orderId, paymentId)),
   Hmac(KeySecret, SignText(orderId, "pay_0"))}

NoRequest == \A s \in Slots : reqs[s] = Idle

CreatingBookings == Cardinality({s \in Slots : reqs[s].op = "createBooking"})

\* ------------------------------------------------------------ the system
\* Every operation, one request at a time, on one booking and one payment.
Next ==
  \/ \E u \in Creators, items \in RequestServices, d \in ScheduledDates :
       /\ NoRequest /\ Len(bookings) < MaxBooked
       /\ CreateBookingStart(1, u, items, d)
  \/ \E s \in Slots : CreateBookingSave(s)
  \/ \E u \in Users, id \in 1..MaxBooked + 1, body \in UpdateBodies :
       NoRequest /\ UpdateBookingFind(1, u, id, body)
  \/ \E s \in Slots : UpdateBookingWrite(s)
  \/ \E u \in Customers \cup {"admin1"}, id \in 1..MaxBooked + 1 :
       NoRequest /\ CancelBookingFind(1, u, id, "")
  \/ \E s \in Slots : CancelBookingSave(s)
  \/ \E u \in Customers, id \in 1..MaxBooked + 1, a \in Amounts :
       /\ NoRequest /\ Len(payments) < MaxPaid
       /\ CreateOrderFindBooking(1, u, id, a)
  \/ \E s \in Slots : CreateOrderFindPayment(s)
  \/ \E s \in Slots, ok \in BOOLEAN : CreateOrderGateway(s, ok)
  \/ \E s \in Slots : CreateOrderSave(s)
  \/ \E o \in 1..MaxPaid + 1, p \in GatewayPaymentIds, id \in 1..MaxBooked + 1 :
       \E sig \in VerifySignatures(o, p) :
         NoRequest /\ VerifyPaymentUpdate(1, "c1", o, p, sig, id)
  \/ \E s \in Slots, cast \in BOOLEAN : VerifyPaymentBooking(s, cast)
  \/ \E id \in 1..MaxPaid + 1, a \in Amounts :
       /\ NoRequest /\ Len(gateway.refunds) < MaxRefunds
       /\ ProcessRefundFind(1, id, a)
  \/ \E s \in Slots, ok \in BOOLEAN : ProcessRefundGateway(s, ok)
  \/ \E s \in Slots : ProcessRefundSave(s)
  \/ \E s \in Slots : ProcessRefundBooking(s)
  \/ \E body \in WebhookBodies(MaxPaid + 1) : \E sig \in WebhookSignatures(body) :
       NoRequest /\ HandleRazorpayWebhook(body, sig)

Spec == Init /\ [][Next]_vars

\* Checkout: the requests that make and settle payments, one at a time, with
\* the administrator's status changes; several payments of one booking.
NextOrders ==
  \/ \E u \in Creators, d \in ScheduledDates :
       /\ NoRequest /\ Len(bookings) < MaxBooked
       /\ CreateBookingStart(1, u, <<[serviceId |-> "s1", quantity |-> 1, addOns |-> <<>>]>>, d)
  \/ \E s \in Slots : CreateBookingSave(s)
  \/ \E id \in 1..MaxBooked, st \in {"confirmed", "cancelled"} :
       NoRequest /\ UpdateBookingFind(1, "admin1", id, [status |-> st])
  \/ \E s \in Slots : UpdateBookingWrite(s)
  \/ \E u \in Customers, id \in 1..MaxBooked + 1, a \in Amounts :
       /\ NoRequest /\ Len(payments) < MaxPayments
       /\ CreateOrderFindBooking(1, u, id, a)
  \/ \E s \in Slots : CreateOrderFindPayment(s)
  \/ \E s \in Slots, ok \in BOOLEAN : CreateOrderGateway(s, ok)
  \/ \E s \in Slots : CreateOrderSave(s)
  \/ \E o \in 1..MaxPayments, p \in GatewayPaymentIds, id \in 1..MaxBooked :
       \E sig \in VerifySignatures(o, p) :
         NoRequest /\ VerifyPaymentUpdate(1, "c1", o, p, sig, id)
  \/ \E s \in Slots, cast \in BOOLEAN : VerifyPaymentBooking(s, cast)
  \/ \E body \in WebhookBodies(MaxPayments) : \E sig \in WebhookSignatures(body) :
       /\ NoRequest /\ body.event \in {"payment.captured", "payment.failed"}
       /\ HandleRazorpayWebhook(body, sig)

SpecOrders == Init /\ [][NextOrders]_vars

\* The checkout of one booking: order, verification, webhook deliveries and
\* refund, one request at a time, with the administrator's confirmation.
\* Requests name the booking or an id no booking has.
CheckoutBookingIds == {1, 2}

NextCheckout ==
  \/ \E u \in Creators, d \in ScheduledDates :
       /\ NoRequest /\ bookings = <<>>
       /\ CreateBookingStart(1, u, <<[serviceId |-> "s1", quantity |-> 1, addOns |-> <<>>]>>, d)
  \/ \E s \in Slots : CreateBookingSave(s)
  \/ \E id \in CheckoutBookingIds, st \in {"confirmed", "cancelled"} :
       NoRequest /\ UpdateBookingFind(1, "admin1", id, [status |-> st])
  \/ \E s \in Slots : UpdateBookingWrite(s)
  \/ \E u \in Customers, id \in CheckoutBookingIds, a \in Amounts :
       /\ NoRequest /\ Len(payments) < MaxPaid
       /\ CreateOrderFindBooking(1, u, id, a)
  \/ \E s \in Slots : CreateOrderFindPayment(s)
  \/ \E s \in Slots, ok \in BOOLEAN : CreateOrderGateway(s, ok)
  \/ \E s \in Slots : CreateOrderSave(s)
  \/ \E o \in 1..MaxPaid + 1, p \in GatewayPaymentIds, id \in CheckoutBookingIds :
       \E sig \in VerifySignatures(o, p) :
         NoRequest /\ VerifyPaymentUpdate(1, "c1", o, p, sig, id)
  \/ \E s \in Slots, cast \in BOOLEAN : VerifyPaymentBooking(s, cast)
  \/ \E id \in 1..MaxPaid, a \in Amounts :
       /\ NoRequest /\ Len(gateway.refunds) < MaxRefunds
       /\ ProcessRefundFind(1, id, a)
  \/ \E s \in Slots, ok \in BOOLEAN : ProcessRefundGateway(s, ok)
  \/ \E s \in Slots : ProcessRefundSave(s)
  \/ \E s \in Slots : ProcessRefundBooking(s)
  \/ \E body \in WebhookBodies(MaxPaid + 1) : \E sig \in WebhookSignatures(body) :
       NoRequest /\ HandleRazorpayWebhook(body, sig)

SpecCheckout == Init /\ [][NextCheckout]_vars

\* Refunds of the payment of one booking: processRefund requests, which may
\* overlap, for a part of the amount paid, all of it, or more.
RefundAmounts == {a \div 2 : a \in Amounts} \cup Amounts \cup {2 * a : a \in Amounts}

Refunding == Cardinality({s \in Slots : reqs[s].op = "processRefund"})

NoOtherRequest == \A s \in Slots : reqs[s].op \in {"idle", "processRefund"}

NextRefunds ==
  \/ \E u \in Creators, d \in ScheduledDates :
       /\ NoRequest /\ bookings = <<>>
       /\ CreateBookingStart(1, u, <<[serviceId |-> "s1", quantity |-> 1, addOns |-> <<>>]>>, d)
  \/ \E s \in Slots : CreateBookingSave(s)
  \/ NoRequest /\ UpdateBookingFind(1, "admin1", 1, [status |-> "confirmed"])
  \/ \E s \in Slots : UpdateBookingWrite(s)
  \/ \E u \in Creators, a \in Amounts :
       /\ NoRequest /\ Len(payments) < MaxPaid
       /\ CreateOrderFindBooking(1, u, 1, a)
  \/ \E s \in Slots : CreateOrderFindPayment(s)
  \/ \E s \in Slots, ok \in BOOLEAN : CreateOrderGateway(s, ok)
  \/ \E s \in Slots : CreateOrderSave(s)
  \/ \E o \in 1..MaxPaid, p \in GatewayPaymentIds : \E sig \in VerifySignatures(o, p) :
       NoRequest /\ VerifyPaymentUpdate(1, "c1", o, p, sig, 1)
  \/ \E s \in Slots, cast \in BOOLEAN : VerifyPaymentBooking(s, cast)
  \/ \E s \in Slots, id \in 1..MaxPaid, a \in RefundAmounts :
       /\ NoOtherRequest /\ Refunding + Len(gateway.refunds) < MaxRefundCalls
       /\ ProcessRefundFind(s, id, a)
  \/ \E s \in Slots, ok \in BOOLEAN : ProcessRefundGateway(s, ok)
  \/ \E s \in Slots : ProcessRefundSave(s)
  \/ \E s \in Slots : ProcessRefundBooking(s)

SpecRefunds == Init /\ [][NextRefunds]_vars

\* Reads of bookings and payments by every user, among the requests that
\* create bookings, assign staff and open orders.
Readers == Users \cup Staff

NextReads ==
  \/ \E u \in Customers, d \in ScheduledDates :
       /\ NoRequest /\ Len(bookings) < MaxBooked
       /\ CreateBookingStart(1, u, <<[serviceId |-> "s1", quantity |-> 1, addOns |-> <<>>]>>, d)
  \/ \E s \in Slots : CreateBookingSave(s)
  \/ \E id \in 1..MaxBooked, body \in {[status |-> "confirmed"], [assignedStaff |-> {"staff1"}]} :
       NoRequest /\ UpdateBookingFind(1, "admin1", id, body)
  \/ \E s \in Slots : UpdateBookingWrite(s)
  \/ \E u \in Customers, id \in 1..MaxBooked, a \in Amounts :
       /\ NoRequest /\ Len(payments) < MaxPaid
       /\ CreateOrderFindBooking(1, u, id, a)
  \/ \E s \in Slots : CreateOrderFindPayment(s)
  \/ \E s \in Slots : CreateOrderGateway(s, TRUE)
  \/ \E s \in Slots : CreateOrderSave(s)
  \/ \E u \in Readers, id \in 1..MaxBooked + 1 : NoRequest /\ GetBooking(u, id)
  \/ \E u \in Readers : NoRequest /\ GetBookings(u)
  \/ \E u \in Readers, id \in 1..MaxPaid + 1 : NoRequest /\ GetPayment(u, id)
  \/ \E u \in Readers, id \in 1..MaxBooked + 1 : NoRequest /\ GetBookingPayments(u, id)

SpecReads == Init /\ [][NextReads]_vars

\* updateBooking requests on one booking that may overlap: its owner's,
\* another customer's, an administrator's.
CustomerBodies ==
  {[scheduledDate |-> StartNow + 4],
   [scheduledDate |-> StartNow + 4, status |-> "completed", customerId |-> "c2",
    assignedStaff |-> {"staff1"}]}

AdminBodies == {[status |-> "confirmed"], [status |-> "assigned"]}

NextUpdates ==
  \/ \E u \in Creators, d \in ScheduledDates :
       /\ NoRequest /\ bookings = <<>>
       /\ CreateBookingStart(1, u, <<[serviceId |-> "s1", quantity |-> 1, addOns |-> <<>>]>>, d)
  \/ \E s \in Slots : CreateBookingSave(s)
  \/ \E s \in Slots, u \in Customers, body \in CustomerBodies :
       UpdateBookingFind(s, u, 1, body)
  \/ \E s \in Slots, body \in AdminBodies : UpdateBookingFind(s, "admin1", 1, body)
  \/ \E s \in Slots : UpdateBookingWrite(s)

SpecUpdates == Init /\ [][NextUpdates]_vars

\* Requests that overlap: the booking numbers of one day.
NextBookings ==
  \/ Tick
  \/ \E s \in Slots, u \in Customers, items \in RequestServices, d \in ScheduledDates :
       /\ Len(bookings) + CreatingBookings < MaxBookings
       /\ CreateBookingStart(s, u, items, d)
  \/ \E s \in Slots : CreateBookingSave(s)

SpecBookings == Init /\ [][NextBookings]_vars

\* Bookings with add-ons and quantities: what createBooking records, and what
\* the later operations leave of it.
PricedRequests ==
  { <<[serviceId |-> "s1", quantity |-> 1, addOns |-> <<>>]>>,
    <<[serviceId |-> "s1", quantity |-> 2,
       addOns |-> <<[name |-> "oven", price |-> 20000]>>]>>,
    <<[serviceId |-> "s1", quantity |-> 1,
       addOns |-> <<[name |-> "oven", price |-> 100]>>]>>,
    <<[serviceId |-> "s3", quantity |-> 1, addOns |-> <<>>]>>,
    <<[serviceId |-> "s3", quantity |-> 2, addOns |-> <<>>]>>,
    <<[serviceId |-> "s3", quantity |-> 1,
       addOns |-> <<[name |-> "extra", price |-> 450]>>]>> }

NextPricing ==
  \/ \E u \in Creators, items \in PricedRequests, d \in ScheduledDates :
       /\ NoRequest /\ Len(bookings) < MaxBooked
       /\ CreateBookingStart(1, u, items, d)
  \/ \E s \in Slots : CreateBookingSave(s)
  \/ \E u \in Customers, body \in CustomerBodies :
       NoRequest /\ UpdateBookingFind(1, u, 1, body)
  \/ \E body \in AdminBodies : NoRequest /\ UpdateBookingFind(1, "admin1", 1, body)
  \/ \E s \in Slots : UpdateBookingWrite(s)
  \/ \E u \in Users : NoRequest /\ CancelBookingFind(1, u, 1, "")
  \/ \E s \in Slots : CancelBookingSave(s)

SpecPricing == Init /\ [][NextPricing]_vars

\* Cancellations as the clock passes the two-hour mark, next to the
\* administrator's status updates.
CancelReasons == {"", "moving"}

CancelIds == 1..(MaxBooked + 1)

NextCancel ==
  \/ Tick
  \/ \E u \in Creators, d \in ScheduledDates :
       /\ NoRequest /\ Len(bookings) < MaxBooked
       /\ CreateBookingStart(1, u, <<[serviceId |-> "s1", quantity |-> 1, addOns |-> <<>>]>>, d)
  \/ \E s \in Slots : CreateBookingSave(s)
  \/ \E id \in CancelIds, body \in AdminBodies :
       NoRequest /\ UpdateBookingFind(1, "admin1", id, body)
  \/ \E s \in Slots : UpdateBookingWrite(s)
  \/ \E u \in Users, id \in CancelIds, reason \in CancelReasons :
       NoRequest /\ CancelBookingFind(1, u, id, reason)
  \/ \E s \in Slots : CancelBookingSave(s)

SpecCancel == Init /\ [][NextCancel]_vars

\* The payment routes: deliveries of the gateway, which carry a signature and
\* no user's credentials, and the same requests sent by a signed-in user.
NextRoutes ==
  \/ \E u \in Creators, d \in ScheduledDates :
       /\ NoRequest /\ bookings = <<>>
       /\ CreateBookingStart(1, u, <<[serviceId |-> "s1", quantity |-> 1, addOns |-> <<>>]>>, d)
  \/ \E s \in Slots : CreateBookingSave(s)
  \/ NoRequest /\ UpdateBookingFind(1, "admin1", 1, [status |-> "confirmed"])
  \/ \E s \in Slots : UpdateBookingWrite(s)
  \/ \E u \in Customers, a \in Amounts :
       /\ NoRequest /\ Len(payments) < MaxPaid
       /\ CreateOrderFindBooking(1, u, 1, a)
  \/ \E s \in Slots : CreateOrderFindPayment(s)
  \/ \E s \in Slots, ok \in BOOLEAN : CreateOrderGateway(s, ok)
  \/ \E s \in Slots : CreateOrderSave(s)
  \/ \E auth \in {NoUser, "c1"}, body \in WebhookBodies(MaxPaid) :
       \E sig \in WebhookSignatures(body) :
         NoRequest /\ WebhookRoute(auth, body, sig)

SpecRoutes == Init /\ [][NextRoutes]_vars

\* Creations one after the other, on servers in several time zones, from an
\* hour before the usual start.
TimeZones == {-1, 0, 1}

InitNumbers ==
  /\ bookings = <<>>
  /\ payments = <<>>
  /\ gateway = [orders |-> 0, refunds |-> <<>>]
  /\ reqs = [s \in Slots |-> Idle]
  /\ now = StartNow - 1
  /\ tz \in TimeZones
  /\ last = Stamp("start", 0, "none")

NextNumbers ==
  \/ Tick
  \/ \E u \in Customers, items \in RequestServices, d \in ScheduledDates :
       /\ NoRequest /\ Len(bookings) < MaxBookings
       /\ CreateBookingStart(1, u, items, d)
  \/ \E s \in Slots : CreateBookingSave(s)

SpecNumbers == InitNumbers /\ [][NextNumbers]_vars

\* Verifications by either customer, naming either of two bookings, of an
\* order its booking's owner has opened.
NextVerify ==
  \/ \E u \in Customers :
       /\ NoRequest /\ Len(bookings) < MaxBookings
       /\ CreateBookingStart(1, u, <<[serviceId |-> "s1", quantity |-> 1, addOns |-> <<>>]>>,
                             StartNow + 3)
  \/ \E s \in Slots : CreateBookingSave(s)
  \/ \E id \in 1..MaxBookings :
       NoRequest /\ UpdateBookingFind(1, "admin1", id, [status |-> "confirmed"])
  \/ \E s \in Slots : UpdateBookingWrite(s)
  \/ \E u \in Customers, id \in 1..MaxBookings, a \in OrderAmounts :
       /\ NoRequest /\ Len(payments) < MaxPaid
       /\ CreateOrderFindBooking(1, u, id, a)
  \/ \E s \in Slots : CreateOrderFindPayment(s)
  \/ \E s \in Slots, ok \in BOOLEAN : CreateOrderGateway(s, ok)
  \/ \E s \in Slots : CreateOrderSave(s)
  \/ \E u \in Customers, o \in 1..MaxPaid, p \in GatewayPaymentIds, id \in 1..MaxBookings :
       \E sig \in VerifySignatures(o, p) :
         NoRequest /\ VerifyPaymentUpdate(1, u, o, p, sig, id)
  \/ \E s \in Slots, cast \in BOOLEAN : VerifyPaymentBooking(s, cast)

SpecVerify == Init /\ [][NextVerify]_vars

\* A cancellation next to the administrator's status updates and a payment's
\* verification: the requests overlap.
NextRace ==
  \/ \E u \in Creators :
       /\ NoRequest /\ bookings = <<>>
       /\ CreateBookingStart(1, u, <<[serviceId |-> "s1", quantity |-> 1, addOns |-> <<>>]>>,
                             StartNow + 3)
  \/ \E s \in Slots : CreateBookingSave(s)
  \/ \E s \in Slots, body \in AdminBodies : UpdateBookingFind(s, "admin1", 1, body)
  \/ \E s \in Slots : UpdateBookingWrite(s)
  \/ \E u \in Customers, a \in Amounts :
       /\ NoRequest /\ Len(payments) < MaxPaid
       /\ CreateOrderFindBooking(1, u, 1, a)
  \/ \E s \in Slots : CreateOrderFindPayment(s)
  \/ \E s \in Slots, ok \in BOOLEAN : CreateOrderGateway(s, ok)
  \/ \E s \in Slots : CreateOrderSave(s)
  \/ \E s \in Slots, o \in 1..MaxPaid, p \in GatewayPaymentIds :
       VerifyPaymentUpdate(s, "c1", o, p, Hmac(KeySecret, SignText(o, p)), 1)
  \/ \E s \in Slots, cast \in BOOLEAN : VerifyPaymentBooking(s, cast)
  \/ \E s \in Slots, u \in {"c1", "staff1"} : CancelBookingFind(s, u, 1, "")
  \/ \E s \in Slots : CancelBookingSave(s)

SpecRace == Init /\ [][NextRace]_vars

\* ================================================================ claims

\* C1: for every booking, in every reachable state, at most one Payment with
\* that bookingId has status 'success'.
C1_AtMostOneSuccessPerBooking ==
  \A p \in PaymentIds, q \in PaymentIds :
    (/\ p # q
     /\ payments[p].bookingId = payments[q].bookingId
     /\ payments[p].status = "success")
    => payments[q].status # "success"

\* C2: a verifyPayment request whose signature is not
\* HMAC-SHA256(key secret, orderId|paymentId) is answered 400 and changes no
\* Payment and no Booking, whatever order, payment and booking it names.
C2_ForgedVerifyChangesNothing ==
  [][(last'.op = "verifyPayment" /\ ~last'.signed)
       => (/\ last'.code = 400
           /\ payments' = payments
           /\ bookings' = bookings
           /\ reqs' = reqs)]_vars

\* A forged verifyPayment has been answered while the order it names has a
\* Payment still 'initiated' and the booking is there to be changed.
C2_Witness ==
  /\ last.op = "verifyPayment" /\ ~last.signed /\ last.code = 400
  /\ last.ref # 0 /\ payments[last.ref].status = "initiated"
  /\ Len(bookings) > 0

\* C3: a webhook delivery whose signature header is not
\* HMAC-SHA256(webhook secret, body) is answered 400 and changes no Payment
\* and no Booking, for every event type.
C3_ForgedWebhookChangesNothing ==
  [][(last'.op = "webhook" /\ ~last'.signed)
       => (/\ last'.code = 400
           /\ payments' = payments
           /\ bookings' = bookings)]_vars

\* A forged payment.captured delivery has been answered while the order it
\* names has a Payment still 'initiated'.
C3_Witness ==
  /\ last.op = "webhook" /\ ~last.signed /\ last.code = 400
  /\ last.tag = "payment.captured"
  /\ last.ref # 0 /\ payments[last.ref].status = "initiated"

\* C4: a validly signed payment.captured delivery that repeats the delivery
\* answered just before is answered 200 and changes nothing: no Payment is
\* created or changed, no Booking changes, and the Payment of the order stays
\* 'success' with the event's gatewayTransactionId.
C4_CapturedRedeliveryIdempotent ==
  [][(last'.op = "webhook" /\ last'.again /\ last'.tag = "payment.captured")
       => (/\ last'.code = 200
           /\ payments' = payments
           /\ bookings' = bookings
           /\ last'.ref # 0 =>
                /\ payments'[last'.ref].status = "success"
                /\ payments'[last'.ref].gatewayTransactionId = last'.arg.id)]_vars

\* The same payment.captured event has been delivered twice in a row for an
\* order that has a Payment.
C4_Witness ==
  /\ last.op = "webhook" /\ last.again /\ last.tag = "payment.captured"
  /\ last.code = 200
  /\ last.ref # 0 /\ payments[last.ref].status = "success"

\* C5: a payment.failed event leaves a 'success' Payment 'success', and no
\* payment.captured event, payment.failed event or verifyPayment request
\* changes the status of a 'refunded' Payment.
C5_StatusMonotonic ==
  [][last'.op \in {"webhook", "verifyPayment"}
       => \A p \in PaymentIds :
            /\ (payments[p].status = "success" /\ last'.tag = "payment.failed")
                 => payments'[p].status = "success"
            /\ payments[p].status = "refunded" => payments'[p].status = "refunded"]_vars

\* C6: every createBooking request with valid input that has been answered
\* has persisted its booking (201), also when it overlapped another creation
\* of the same day.
C6_EveryValidCreationPersists ==
  (last.op = "createBooking" /\ last.tag = "valid" /\ last.code # 0)
    => last.code = 201

\* C7: no two persisted Booking records have the same bookingNumber.
C7_BookingNumbersUnique ==
  \A a \in BookingIds, b \in BookingIds :
    a # b => bookings[a].bookingNumber # bookings[b].bookingNumber

\* Two creations overlapped on one day: both counted the same documents, one
\* has persisted its booking and the other has just been answered.
C7_Witness ==
  /\ last.op = "createBooking" /\ last.tag = "valid" /\ last.code = 500
  /\ Len(bookings) >= 1

\* C8: every step that changes the status of a persisted Booking takes one of
\* the edges pending->confirmed, confirmed->assigned, assigned->in_progress,
\* in_progress->completed, pending|confirmed|assigned->cancelled (so
\* 'completed' and 'cancelled' are never left), and every step that persists
\* a Booking persists it 'pending'.
C8_StatusEdgesLegal ==
  [][LET LegalEdges ==
           {<<"pending", "confirmed">>, <<"confirmed", "assigned">>,
            <<"assigned", "in_progress">>, <<"in_progress", "completed">>,
            <<"pending", "cancelled">>, <<"confirmed", "cancelled">>,
            <<"assigned", "cancelled">>}
     IN /\ \A b \in BookingIds :
             bookings'[b].status # bookings[b].status
               => <<bookings[b].status, bookings'[b].status>> \in LegalEdges
        /\ Len(bookings') > Len(bookings)
             => bookings'[Len(bookings')].status = "pending"]_vars

\* C9: createOrder answers 404, 403, 400 to a booking that is missing, not the
\* requester's, not 'confirmed', and then opens no gateway order and persists
\* no Payment; a gateway order is opened and a Payment persisted only by a
\* createOrder request whose booking passed the three checks; the request
\* that succeeds persists exactly one Payment, 'initiated', whose
\* transactionId and gatewayOrderId are the id of the gateway order.
C9_CreateOrderChecks ==
  [][/\ (last'.op = "createOrder" /\ last'.tag \in {"missing", "foreign", "unconfirmed"})
          => /\ last'.code = (CASE last'.tag = "missing" -> 404
                                [] last'.tag = "foreign" -> 403
                                [] OTHER -> 400)
             /\ payments' = payments /\ gateway' = gateway /\ reqs' = reqs
     /\ gateway'.orders # gateway.orders
          => \E s \in Slots : /\ reqs[s].op = "createOrder"
                              /\ reqs[s].case = "payable"
                              /\ reqs'[s].order = gateway'.orders
     /\ (last'.op = "createOrder" /\ last'.code = 200)
          => Len(payments') = Len(payments) + 1
     /\ Len(payments') # Len(payments)
          => /\ last'.op = "createOrder" /\ last'.code = 200
             /\ Len(payments') = Len(payments) + 1
             /\ SubSeq(payments', 1, Len(payments)) = payments
             /\ payments'[Len(payments')].status = "initiated"
             /\ \E s \in Slots :
                  /\ reqs[s].op = "createOrder" /\ reqs[s].case = "payable"
                  /\ reqs[s].order \in 1..gateway.orders
                  /\ payments'[Len(payments')].transactionId = reqs[s].order
                  /\ payments'[Len(payments')].gatewayOrderId = reqs[s].order
                  /\ payments'[Len(payments')].bookingId = reqs[s].bookingId]_vars

\* A createOrder request on the requester's own confirmed booking has been
\* answered 200 and its Payment is the last one persisted.
C9_Witness ==
  /\ last.op = "createOrder" /\ last.code = 200
  /\ payments[Len(payments)].status = "initiated"
  /\ payments[Len(payments)].transactionId = gateway.orders
  /\ bookings[payments[Len(payments)].bookingId].status = "confirmed"

\* C10: no createOrder request succeeds for a booking that has a Payment with
\* status 'success', wherever that Payment stands among the booking's
\* Payments.
C10_NoOrderOnPaidBooking ==
  ~(/\ last.op = "createOrder" /\ last.code = 200
    /\ \E p \in 1..(Len(payments) - 1) :
         /\ payments[p].bookingId = payments[Len(payments)].bookingId
         /\ payments[p].status = "success")

\* C11: a verifyPayment request with a matching signature that finds no
\* Payment of the order is answered 404 and changes nothing; one that finds
\* the Payment makes it 'success' with the gateway payment id of the request
\* and, when it is done, the Booking of that Payment is 'assigned' and its
\* payment reference is that Payment.
C11_VerifyEffects ==
  [][(last'.op = "verifyPayment" /\ last'.signed)
       => IF last'.ref = 0
            THEN /\ last'.code = 404
                 /\ payments' = payments /\ bookings' = bookings /\ reqs' = reqs
            ELSE /\ payments'[last'.ref].status = "success"
                 /\ payments'[last'.ref].gatewayTransactionId # NoTxn
                 /\ last'.tag = "booking"
                      => LET b == payments'[last'.ref].bookingId
                         IN /\ last'.code = 200
                            /\ bookings'[b].status = "assigned"
                            /\ bookings'[b].payment = last'.ref]_vars

\* C12: a processRefund request goes on to the gateway only for a Payment
\* whose status is 'success' and whose refund.isRefunded is false; a request
\* that is refused changes no Payment, no Booking and makes no gateway call.
C12_RefundOnlyWhenRefundable ==
  [][/\ \A s \in Slots :
          (reqs[s].op # "processRefund" /\ reqs'[s].op = "processRefund")
            => /\ payments[reqs'[s].id].status = "success"
               /\ ~payments[reqs'[s].id].refund.isRefunded
     /\ (last'.op = "processRefund" /\ last'.code \in {400, 404})
          => (payments' = payments /\ bookings' = bookings /\ gateway' = gateway)]_vars

\* C13: no processRefund request for more than the Payment's amount has a
\* refund made by the gateway or writes the Payment or the Booking, and no
\* Payment ever records a refund larger than its amount.
C13_RefundWithinAmount ==
  [][/\ \A s \in Slots :
          (/\ reqs[s].op = "processRefund"
           /\ reqs[s].amount > payments[reqs[s].id].amount
           /\ reqs'[s] # reqs[s])
            => (gateway' = gateway /\ payments' = payments /\ bookings' = bookings)
     /\ \A p \in PaymentIds :
          payments'[p].refund.refundAmount <= payments'[p].amount]_vars

\* C14: the Payment write of a processRefund request makes the status
\* 'refunded' exactly when the amount refunded is the Payment's amount; a
\* refund of less leaves the status 'success', with refund.isRefunded true
\* and refund.refundAmount the amount refunded.
C14_RefundedIffFull ==
  [][(last'.op = "processRefund" /\ last'.tag = "saved")
       => \A s \in Slots :
            (reqs[s].op = "processRefund" /\ reqs[s].pc = "save" /\ reqs'[s].pc = "booking")
              => LET p == payments'[reqs[s].id]
                 IN /\ p.refund.isRefunded
                    /\ p.refund.refundAmount = reqs[s].amount
                    /\ (p.status = "refunded") <=> (reqs[s].amount = p.amount)
                    /\ reqs[s].amount < p.amount => p.status = "success"]_vars

\* C15: every Booking's status is one of pending, confirmed, assigned,
\* in_progress, completed, cancelled, and a processRefund request that is
\* answered 200 leaves the Booking of the Payment 'cancelled' with
\* cancellation.refundAmount the amount refunded.
C15_RefundCancelsBooking ==
  [][/\ \A b \in 1..Len(bookings') : bookings'[b].status \in BookingStatusEnum
     /\ (last'.op = "processRefund" /\ last'.code = 200)
          => \A s \in Slots :
               (reqs[s].op = "processRefund" /\ reqs'[s] = Idle)
                 => /\ bookings'[reqs[s].bookingId].status = "cancelled"
                    /\ bookings'[reqs[s].bookingId].cancellation.refundAmount
                         = reqs[s].amount]_vars

\* C16: the gateway makes at most one refund of a gateway payment, and the
\* refund fields of a Payment are written only while refund.isRefunded is
\* false, whatever processRefund requests are made and however they overlap.
C16_RefundAtMostOnce ==
  [][/\ \A t \in GatewayPaymentIds :
          Cardinality({i \in 1..Len(gateway'.refunds) :
                         gateway'.refunds[i].payment_id = t}) <= 1
     /\ \A p \in PaymentIds :
          payments'[p].refund # payments[p].refund => ~payments[p].refund.isRefunded]_vars

\* C17: the request of verifyPayment or processRefund that ends leaves both
\* of its writes in effect or neither: the Payment it made 'success' has the
\* request's Booking 'assigned' and linked to it, the Payment it made
\* 'refunded' has its Booking's cancellation recorded.
C17_WritesAllOrNothing ==
  [][\A s \in Slots :
       /\ (reqs[s].op = "verifyPayment" /\ reqs'[s] = Idle)
            => \/ payments'[reqs[s].payment].status # "success"
               \/ /\ reqs[s].bookingId \in BookingIds
                  /\ bookings'[reqs[s].bookingId].status = "assigned"
                  /\ bookings'[reqs[s].bookingId].payment = reqs[s].payment
       /\ (reqs[s].op = "processRefund" /\ reqs[s].pc = "booking" /\ reqs'[s] = Idle)
            => \/ payments'[reqs[s].id].status # "refunded"
               \/ bookings'[reqs[s].bookingId].cancellation.isCancelled]_vars

\* C18: getBooking sends a booking to a customer only if the customer is its
\* customerId, to a staff user only if the user is in its assignedStaff, and
\* to an admin whenever it exists; getBookings sends a customer only their
\* own bookings and a staff user only bookings they are assigned to.
C18_BookingReadsByRole ==
  [][LET u   == last'.arg.user
         Own(b)      == bookings[b].customerId = u
         Assigned(b) == u \in bookings[b].assignedStaff
     IN /\ (last'.op = "getBooking" /\ last'.code = 200)
             => /\ last'.ref \in BookingIds /\ last'.arg.ids = {last'.ref}
                /\ Role(u) = "customer" => Own(last'.ref)
                /\ Role(u) = "staff" => Assigned(last'.ref)
        /\ (last'.op = "getBooking" /\ last'.code # 200) => last'.arg.ids = {}
        /\ (last'.op = "getBooking" /\ Role(u) = "admin" /\ last'.ref \in BookingIds)
             => last'.code = 200
        /\ last'.op = "getBookings"
             => /\ last'.arg.ids \subseteq BookingIds
                /\ Role(u) = "customer" => \A b \in last'.arg.ids : Own(b)
                /\ Role(u) = "staff" => \A b \in last'.arg.ids : Assigned(b)]_vars

\* A staff user who is not assigned to the one booking that has staff
\* assigned has been refused it.
C18_Witness ==
  /\ last.op = "getBooking" /\ last.code = 403
  /\ Role(last.arg.user) = "staff"
  /\ bookings[last.ref].assignedStaff # {}

\* C19: getPayment and getBookingPayments send a Payment to a customer only
\* if the customer is the Payment's customerId.
C19_PaymentReadsByOwner ==
  [][(last'.op \in {"getPayment", "getBookingPayments"} /\ last'.code = 200)
       => (Role(last'.arg.user) = "customer"
             => \A p \in last'.arg.ids : payments[p].customerId = last'.arg.user)]_vars

\* C20: the write of an updateBooking request made by a customer changes no
\* field of the booking other than scheduledDate (with scheduledTimeSlot,
\* specialInstructions, serviceAddress), changes nothing when the stored
\* status at the time of the write is not pending or confirmed, and changes
\* nothing on a booking of another customer.
C20_CustomerUpdateFrame ==
  [][\A s \in Slots :
       (/\ reqs[s].op = "updateBooking" /\ Role(reqs[s].user) = "customer"
        /\ reqs'[s] = Idle)
         => LET id == reqs[s].id
            IN /\ \A b \in BookingIds \ {id} : bookings'[b] = bookings[b]
               /\ \A k \in DOMAIN bookings[id] \ {"scheduledDate"} :
                    bookings'[id][k] = bookings[id][k]
               /\ bookings[id].status \notin {"pending", "confirmed"}
                    => bookings'[id] = bookings[id]
               /\ bookings[id].customerId # reqs[s].user
                    => bookings'[id] = bookings[id]]_vars

\* C21: every persisted booking has pricing.subtotal = the sum over its line
\* items of (basePrice + sum of add-on prices) * quantity, pricing.tax =
\* subtotal * 18% rounded half-up to two decimals, pricing.discount = 0,
\* pricing.total = subtotal + tax - discount, all of them non-negative; and no
\* later operation changes the pricing of a booking.
C21_PricingComputed ==
  [][LET LineTotal(l) == (l.basePrice + SumPrices(l.addOns)) * l.quantity
         HalfUp(subtotal) == (subtotal * 18 + 50) \div 100
     IN \A b \in 1..Len(bookings') :
          LET bk == bookings'[b]
              sub == IF Len(bk.services) = 1 THEN LineTotal(bk.services[1])
                     ELSE LineTotal(bk.services[1]) + LineTotal(bk.services[2])
          IN /\ bk.pricing.subtotal = sub
             /\ bk.pricing.tax = HalfUp(bk.pricing.subtotal)
             /\ bk.pricing.discount = 0
             /\ bk.pricing.total
                  = bk.pricing.subtotal + bk.pricing.tax - bk.pricing.discount
             /\ bk.pricing.subtotal >= 0 /\ bk.pricing.tax >= 0
             /\ bk.pricing.total >= 0
             /\ (b \in BookingIds => bk.pricing = bookings[b].pricing)]_vars

\* C22: every recorded price is a snapshot of the catalog: a line item's
\* basePrice is the base price of its service in the catalog, each recorded
\* add-on is one the service offers, at the price the catalog gives it, and no
\* later operation changes the line items of a booking.
C22_PricesFromCatalog ==
  [][\A b \in 1..Len(bookings') :
       /\ \A i \in 1..Len(bookings'[b].services) :
            LET l == bookings'[b].services[i]
            IN /\ l.basePrice = Catalog[l.serviceId].basePrice
               /\ \A a \in 1..Len(l.addOns) :
                    l.addOns[a] \in Catalog[l.serviceId].addOns
       /\ (b \in BookingIds => bookings'[b].services = bookings[b].services)]_vars

\* C23: canCancel() is true exactly when the current time is strictly earlier
\* than scheduledDate minus two hours and the status is 'pending' or
\* 'confirmed'; at exactly two hours before scheduledDate it is false, so
\* cancelBooking refuses with 400.
C23_CanCancelWindow ==
  [][(last'.op = "cancelBooking" /\ last'.tag \in {"found", "refused"})
       => LET b == bookings[last'.ref]
          IN /\ (last'.tag = "found")
                  <=> (/\ now + 2 < b.scheduledDate
                       /\ b.status \in {"pending", "confirmed"})
             /\ now + 2 = b.scheduledDate => last'.code = 400]_vars

C23_Witness ==
  /\ last.op = "cancelBooking" /\ last.tag = "refused" /\ last.code = 400
  /\ last.ref \in BookingIds
  /\ now + 2 = bookings[last.ref].scheduledDate
  /\ bookings[last.ref].status \in {"pending", "confirmed"}

\* C25: cancelBooking sets the status 'cancelled' and records the cancellation
\* (isCancelled, cancelledBy = the requester, cancelledAt, the reason) exactly
\* when the booking exists, the requester is not a customer other than its
\* owner, and canCancel() is true at the time of the request; otherwise it
\* answers 404, 403 or 400 and changes nothing; it never removes a booking.
C25_CancelBooking ==
  [][last'.op = "cancelBooking"
       => LET id == last'.ref
              u == last'.arg.user
              exists == id \in BookingIds
              permitted == exists /\ ~(u \in Customers /\ bookings[id].customerId # u)
              cancellable == /\ permitted
                             /\ now + 2 < bookings[id].scheduledDate
                             /\ bookings[id].status \in {"pending", "confirmed"}
          IN IF last'.tag = "cancelled"
               THEN \E s \in Slots :
                      /\ reqs[s].op = "cancelBooking" /\ reqs[s].id = id
                      /\ reqs[s].user = u /\ reqs'[s] = Idle
                      /\ last'.code = 200
                      /\ Len(bookings') = Len(bookings)
                      /\ \A b \in BookingIds : b # id => bookings'[b] = bookings[b]
                      /\ bookings'[id].status = "cancelled"
                      /\ bookings'[id].cancellation.isCancelled
                      /\ bookings'[id].cancellation.cancelledBy = u
                      /\ bookings'[id].cancellation.cancelledAt = reqs[s].at
                      /\ bookings'[id].cancellation.cancellationReason = reqs[s].reason
                      /\ reqs[s].reason # ""
               ELSE /\ bookings' = bookings
                    /\ (last'.code = 404) <=> ~exists
                    /\ (last'.code = 403) <=> (exists /\ ~permitted)
                    /\ (last'.code = 400) <=> (permitted /\ ~cancellable)
                    /\ (last'.code = 0) <=> cancellable
                    /\ last'.code = 0
                         => \E s \in Slots :
                              /\ reqs[s] = Idle
                              /\ reqs'[s].op = "cancelBooking" /\ reqs'[s].id = id
                              /\ reqs'[s].user = u /\ reqs'[s].at = now]_vars

C25_Witness ==
  /\ last.op = "cancelBooking" /\ last.tag = "cancelled"
  /\ bookings[last.ref].status = "cancelled"
  /\ bookings[last.ref].cancellation.cancelledBy = "staff1"
  /\ bookings[last.ref].customerId = "c1"
  /\ bookings[last.ref].cancellation.cancellationReason = "moving"

\* C24: a webhook request whose signature is the gateway's and which carries
\* no user authentication reaches handleRazorpayWebhook and is answered 200;
\* the authentication middleware does not reject it.
C24_WebhookNeedsNoAuth ==
  [][(last'.op = "webhook" /\ last'.signed)
       => (last'.code = 200 /\ last'.tag # "protect")]_vars

\* C26: an updateBooking request of a customer that changes scheduledDate
\* takes effect only if canReschedule() holds: the current time is more than
\* four hours before the booking's scheduledDate and the status is 'pending',
\* 'confirmed' or 'assigned'.
C26_RescheduleWindow ==
  [][\A s \in Slots :
       (/\ reqs[s].op = "updateBooking" /\ reqs'[s] = Idle
        /\ Role(reqs[s].user) = "customer"
        /\ bookings'[reqs[s].id].scheduledDate # bookings[reqs[s].id].scheduledDate)
       => CanReschedule(bookings[reqs[s].id], now)]_vars

\* C27: for createBooking requests that do not overlap, at any creation times
\* and in any server time zone, the number generated (date part in UTC,
\* sequence = 1 + the count of the bookings of the server-local day) differs
\* from the number of every existing booking, so that the creation does not
\* fail on the unique constraint.
C27_SequentialNumbersFree ==
  [][\A s \in Slots :
       (reqs[s].op = "createBooking" /\ reqs'[s] = Idle)
       => /\ \A b \in BookingIds :
               bookings[b].bookingNumber # BookingNumber(reqs[s].date, reqs[s].count)
          /\ last'.code = 201
          /\ Len(bookings') = Len(bookings) + 1]_vars

C29_OrderAmountIsTotal ==
  [][/\ Len(payments') > Len(payments)
          => LET p == payments'[Len(payments')]
             IN p.amount = bookings[p.bookingId].pricing.total
     /\ \A s \in Slots :
          (reqs[s].op = "createOrder" /\ gateway'.orders > gateway.orders)
            => reqs[s].amount = bookings[reqs[s].bookingId].pricing.total]_vars

\* C30: cancelBooking's check and write are atomic with respect to a
\* concurrent verifyPayment or updateBooking of an administrator or staff
\* member: it never writes 'cancelled' over a stored status that is no longer
\* 'pending' or 'confirmed'.
C30_CancelWriteSeesStatus ==
  [][\A s \in Slots :
       (/\ reqs[s].op = "cancelBooking" /\ reqs'[s] = Idle
        /\ bookings'[reqs[s].id].status = "cancelled")
       => bookings[reqs[s].id].status \in {"pending", "confirmed"}]_vars

====
